---- MODULE Spec2Model ----
(***************************************************************************)
(* Model of the Workday co-pilot content script: the page-filling loop     *)
(* (analyzePageFields / handleNavigation), the field dispatcher            *)
(* (processInputElement) and the five field handlers (select, multi-select,*)
(* radio group, checkbox, text).                                           *)
(*                                                                         *)
(* The JavaScript runtime is single threaded: an invocation runs from one  *)
(* await (model request, timer) to the next without interruption.  Every   *)
(* action below is one such run; pc values in SyncPcs are positions inside *)
(* a run, all other pc values are awaits.                                  *)
(***************************************************************************)
EXTENDS Integers, Sequences, FiniteSets, TLC

(***************************************************************************)
(* Bounds of the model                                                     *)
(***************************************************************************)
NumPages == 2          \* form pages before the final (button-less) page
MaxStarts == 2         \* start commands delivered to the content script
MaxBtnAttempts == 2    \* button-resolution requests followed per navigation

(***************************************************************************)
(* Program constants                                                       *)
(***************************************************************************)
RetryBudget == 3

Inv == 1..MaxStarts
PageIds == 1..(NumPages + 1)

(***************************************************************************)
(* Strings are sequences of one-character strings, so that trimming and    *)
(* exact comparison are distinguishable.                                   *)
(***************************************************************************)
Empty == << >>
A == <<"a">>
B == <<"b">>
C == <<"c">>
SpA == <<" ", "a">>
Blank == <<" ">>

RECURSIVE TrimLeft(_)
TrimLeft(s) ==
  IF s = << >> THEN s
  ELSE IF Head(s) = " " THEN TrimLeft(Tail(s)) ELSE s

RECURSIVE TrimRight(_)
TrimRight(s) ==
  IF s = << >> THEN s
  ELSE IF s[Len(s)] = " " THEN TrimRight(SubSeq(s, 1, Len(s) - 1)) ELSE s

\* String.prototype.trim
Trim(s) == TrimRight(TrimLeft(s))

SeqToSet(s) == {s[k] : k \in 1..Len(s)}

(***************************************************************************)
(* The document.  A page shows one of two layouts; the page after the last *)
(* form page has no labels and no buttons.                                 *)
(***************************************************************************)
Layout(p) == IF p > NumPages THEN 0 ELSE ((p - 1) % 2) + 1

ElemNames == {"sel", "cb", "tx", "ms", "rg", "em", "ta"}

NoElem == "none"

\* attributes of the elements, as read by processInputElement and the handlers
Elem(e) ==
  CASE e = "sel" -> [haspopup |-> "listbox", widget |-> "none", type |-> "text",
                     tag |-> "BUTTON", isInput |-> FALSE]
    [] e = "cb"  -> [haspopup |-> "none", widget |-> "none", type |-> "checkbox",
                     tag |-> "INPUT", isInput |-> TRUE]
    [] e = "tx"  -> [haspopup |-> "none", widget |-> "none", type |-> "text",
                     tag |-> "INPUT", isInput |-> TRUE]
    [] e = "ms"  -> [haspopup |-> "none", widget |-> "selectinput", type |-> "text",
                     tag |-> "INPUT", isInput |-> TRUE]
    [] e = "rg"  -> [haspopup |-> "none", widget |-> "radioGroup", type |-> "none",
                     tag |-> "DIV", isInput |-> FALSE]
    [] e = "em"  -> [haspopup |-> "none", widget |-> "none", type |-> "email",
                     tag |-> "INPUT", isInput |-> TRUE]
    [] e = "ta"  -> [haspopup |-> "none", widget |-> "none", type |-> "textarea",
                     tag |-> "TEXTAREA", isInput |-> FALSE]

ElemsOf(l) ==
  CASE l = 1 -> {"sel", "cb", "tx", "em", "ta"}
    [] l = 2 -> {"ms", "rg"}
    [] OTHER -> {}

\* the fields of a layout that the page validates, and so may flag with
\* aria-invalid after a click of the next control; the free-text area is
\* optional
Validated(l) == {e \in ElemsOf(l) : Elem(e).tag # "TEXTAREA"}

\* <label> elements of a layout in document order: text content and "for"
LabelsOf(l) ==
  CASE l = 1 -> << [text |-> <<"n">>, for |-> "sel"],
                   [text |-> Blank, for |-> "cb"],
                   [text |-> <<"g">>, for |-> "cb"],
                   [text |-> Blank, for |-> "tx"],
                   [text |-> <<"t">>, for |-> "tx"],
                   [text |-> <<"e">>, for |-> "em"],
                   [text |-> <<"o">>, for |-> NoElem],
                   [text |-> <<"a">>, for |-> "ta"] >>
    [] l = 2 -> << [text |-> <<"m">>, for |-> "ms"],
                   [text |-> <<"r">>, for |-> "rg"] >>
    [] OTHER -> << >>

\* <legend> elements inside <fieldset> elements, in document order
LegendsOf(l) ==
  CASE l = 2 -> << [text |-> <<"r">>, for |-> "rg"] >>
    [] OTHER -> << >>

\* whether the layout shows a date icon
HasDateIcon(l) == l = 1

\* option ids listed for a drop-down; level 1 is the list shown after the
\* widget is clicked, level 2 the sub-list shown after a nested item is clicked
OptionIds(e, level) ==
  CASE e = "sel" /\ level = 1 -> <<A, B>>
    [] e = "ms" /\ level = 1 -> <<A, B>>
    [] e = "ms" /\ level = 2 -> <<C>>
    [] OTHER -> << >>

\* data-uxi-multiselectlistitem-type of the first listed item
FirstItemType(e) == IF e = "ms" THEN "2" ELSE "none"

\* radio options: label text, "for" of the label, and whether the
\* input[id=\3<for>] lookup finds an input
RadioPairs(e) ==
  IF e = "rg"
    THEN << [label |-> <<"y">>, inputId |-> A, input |-> TRUE],
            [label |-> <<"z">>, inputId |-> B, input |-> FALSE] >>
    ELSE << >>

ButtonsOn(p) == IF p <= NumPages THEN {"next", "other"} ELSE {}

\* text of the progress indicator of a page
StepText(p) == p

(***************************************************************************)
(* Model responses.  generateText either throws (the request failed) or    *)
(* returns text; the text is either not JSON or a JSON object.             *)
(***************************************************************************)
Reply(k, id, st, rok, isStr, v) ==
  [kind |-> k, id |-> id, state |-> st, reasonOk |-> rok, isString |-> isStr, value |-> v]

NoReply == Reply("none", Empty, "none", FALSE, FALSE, Empty)
Thrown == Reply("throw", Empty, "none", FALSE, FALSE, Empty)
Garbage == Reply("garbage", Empty, "none", FALSE, FALSE, Empty)

OptionReplies ==
  {Thrown, Garbage} \cup
  {Reply("json", x, "none", TRUE, FALSE, Empty) : x \in {Empty, A, B, C, SpA}}

CheckboxReplies ==
  {Thrown, Garbage} \cup
  {Reply("json", Empty, s, r, FALSE, Empty) :
      s \in {"checked", "unchecked", "maybe"}, r \in BOOLEAN}

TextReplies ==
  {Thrown, Garbage, Reply("json", Empty, "none", TRUE, FALSE, Empty)} \cup
  {Reply("json", Empty, "none", TRUE, TRUE, v) : v \in {Empty, <<"x">>, <<"x", "y">>}}

ButtonReplies == {"throw", "garbage", "next", "other", "bogus"}

(***************************************************************************)
(* Pure functions of the handlers                                          *)
(***************************************************************************)
\* variant: a parse that never fails
parseAIResponse_Lenient(reply) == TRUE

\* JSON.parse inside parseAIResponse: TRUE when the text parses
parseAIResponse(reply) == reply.kind = "json"

\* variant: only the first collected option is accepted
validateAIResponse_FirstOnly(reply, options) ==
  /\ reply.id # Empty
  /\ Len(options) > 0
  /\ reply.id = options[1]

\* selectInput.validateAIResponse: a non-empty string id that is one of the
\* collected option ids
validateAIResponse(reply, options) ==
  /\ reply.id # Empty
  /\ reply.id \in SeqToSet(options)

\* variant: the id is trimmed before it is looked up
validateMultiSelectResponse_Trimmed(reply, options) ==
  /\ Trim(reply.id) # Empty
  /\ Trim(reply.id) \in SeqToSet(options)

\* multiSelect.validateAIResponse
validateMultiSelectResponse(reply, options) ==
  /\ reply.id # Empty
  /\ reply.id \in SeqToSet(options)

\* radioGroup.validateAIResponse
validateRadioResponse(reply, options) ==
  /\ reply.id # Empty
  /\ reply.id \in SeqToSet(options)

\* checkbox.validateAIResponse
validateCheckboxResponse(reply) ==
  /\ reply.state \in {"checked", "unchecked"}
  /\ reply.reasonOk

\* the id that multiSelect.selectOption returns for a validated response
multiSelectReturn(reply) == Trim(reply.id)

\* code of the tagged error thrown by the catch block around the model call
AIErrorCode(kind) ==
  IF kind = "checkbox" THEN "AI_PROCESSING_FAILED" ELSE "AI_SELECTION_FAILED"

\* cause wrapped in that error: which step inside the try block threw
AIErrorCause(reply, valid) ==
  IF reply.kind = "throw" THEN "CallFailed"
  ELSE IF ~parseAIResponse(reply) THEN "InvalidJSON"
  ELSE IF ~valid THEN "InvalidSelection"
  ELSE "none"

\* variant: the error is rethrown after logging
handleError_Rethrow(code) == TRUE

\* handleError of the handlers: logs; TRUE would mean the error is rethrown
handleError(code) == FALSE

\* variant: every list is taken for a single-level list
getMultiSelectType_Single(type) == "1"

\* getMultiSelectType: "type || MultiSelectType.Single" for the attribute
\* read from the first option
getMultiSelectType(type) ==
  IF type = "none" THEN "1" ELSE type

\* mapToRadioOptions after getLabelInputPairs' filter
RadioOptionIds(e) ==
  LET ps == RadioPairs(e)
      Keep(p) == p.label # Empty /\ p.inputId # Empty
  IN  SelectSeq([k \in 1..Len(ps) |-> ps[k]], Keep)

RadioIds(e) == [k \in 1..Len(RadioOptionIds(e)) |-> RadioOptionIds(e)[k].inputId]

\* variant: the text test comes first
HandlerFor_TextFirst(e) ==
  LET a == Elem(e)
  IN  IF a.type = "text" \/ a.tag = "TEXTAREA" THEN "text"
      ELSE IF a.haspopup = "listbox" THEN "select"
      ELSE IF a.widget = "selectinput" THEN "multiSelect"
      ELSE IF a.widget = "radioGroup" THEN "radioGroup"
      ELSE IF a.type = "checkbox" THEN "checkbox"
      ELSE "none"

\* variant: an element of no recognised kind goes to the text handler
HandlerFor_TextFallback(e) ==
  LET a == Elem(e)
  IN  IF a.haspopup = "listbox" THEN "select"
      ELSE IF a.widget = "selectinput" THEN "multiSelect"
      ELSE IF a.widget = "radioGroup" THEN "radioGroup"
      ELSE IF a.type = "checkbox" THEN "checkbox"
      ELSE "text"

\* processInputElement: the handler an element is routed to
HandlerFor(e) ==
  LET a == Elem(e)
  IN  IF a.haspopup = "listbox" THEN "select"
      ELSE IF a.widget = "selectinput" THEN "multiSelect"
      ELSE IF a.widget = "radioGroup" THEN "radioGroup"
      ELSE IF a.type = "checkbox" THEN "checkbox"
      ELSE IF a.type = "text" \/ a.tag = "TEXTAREA" THEN "text"
      ELSE "none"

\* checkbox.isCheckboxInput
isCheckboxInput(e) == Elem(e).isInput /\ Elem(e).type = "checkbox"

\* variant: one click too many
RetriesExhausted_Strict(n) == n < 0

\* handleNavigation: the test that ends navigation for the page
RetriesExhausted(n) == n <= 0

\* variants: the counter is left as it is
RetryAfterUnchanged_Kept(n) == n
RetryAfterChanged_Kept(n) == n

\* handleNavigation: the retry counter after an unchanged / a changed indicator
RetryAfterUnchanged(n) == n - 1
RetryAfterChanged(n) == RetryBudget

\* handleNavigation: hasError argument of the analyzePageFields call that follows
RescanAfterUnchanged == TRUE
RescanAfterChanged == FALSE

(***************************************************************************)
(* State                                                                   *)
(***************************************************************************)
VARIABLES
  page,          \* the page the document shows
  dom,           \* per element: value, checked, aria-invalid, open list level
  dateVal,       \* value of the date widget of the page
  maxRetryCountForCurrentPage,
  saveButtonDataAutomationId,
  inv,           \* per start command: position and locals of its async chain
  clickPending,  \* button clicked and not yet reacted to by the page
  last,          \* what the step just taken did to a field (history)
  navClicks,     \* per page: clicks of the next control (history)
  fullDone,      \* pages whose full fill pass has completed (history)
  left           \* pages that were navigated away from (history)

vars == <<page, dom, dateVal, maxRetryCountForCurrentPage,
          saveButtonDataAutomationId, inv, clickPending, last, navClicks,
          fullDone, left>>

FreshElem == [value |-> Empty, checked |-> FALSE, invalid |-> FALSE, list |-> 0]
FreshDom == [e \in ElemNames |-> FreshElem]

IdleInv ==
  [pc |-> "idle", hasError |-> FALSE, scanPage |-> 0, fsPage |-> 0, idx |-> 0,
   ret |-> "none", el |-> NoElem, label |-> Empty, opts |-> << >>,
   nested |-> FALSE, itemType |-> "none", typing |-> << >>, prevStep |-> 0,
   tries |-> 0,
   status |-> "none", pageErr |-> "none", threw |-> FALSE,
   dispatched |-> {}, legends |-> {}, failed |-> {}, navTried |-> FALSE,
   open |-> 0, pending |-> 0, reqs |-> 0, lastBtn |-> "none",
   evlog |-> << >>, answer |-> Empty]

\* updateStatus in a handler: whether the step that handled this response
\* sent the status update.  The option and checkbox handlers call it right
\* after the parse, the text handler after its parse whether it failed or not
StatusSent(kind, reply) ==
  IF kind = "text" THEN reply.kind \in {"garbage", "json"}
  ELSE reply.kind = "json"

Event(i, kind, e, opts, reply, code, cause, clicked, before, after) ==
  [inv |-> i, kind |-> kind, el |-> e, opts |-> opts, reply |-> reply,
   code |-> code, cause |-> cause, clicked |-> clicked,
   before |-> before, after |-> after, status |-> StatusSent(kind, reply),
   log |-> << >>, answer |-> Empty]

NoEvent == Event(0, "none", NoElem, << >>, NoReply, "none", "none", << >>, FALSE, FALSE)

\* positions inside a synchronous run; every other position is an await
SyncPcs == {"fieldsets", "labels", "nav", "returned"}

HandlerPcs == {"selOpen", "selAI", "msOpen", "msAI", "msNestedWait",
               "msNestedAI", "rgAI", "cbAI", "txAI", "txTyping"}

\* the event loop runs one invocation at a time
CanRun(i) == \A j \in Inv \ {i} : inv[j].pc \notin SyncPcs

Init ==
  /\ page \in PageIds
  /\ dom = FreshDom
  /\ dateVal = "none"
  /\ maxRetryCountForCurrentPage = RetryBudget
  /\ saveButtonDataAutomationId = "none"
  /\ inv = [i \in Inv |-> IdleInv]
  /\ clickPending = "none"
  /\ last = NoEvent
  /\ navClicks = [p \in PageIds |-> 0]
  /\ fullDone = {}
  /\ left = {}

(***************************************************************************)
(* analyzePageFields                                                       *)
(***************************************************************************)
\* document.getElementById for an element of the form
InDocument(e) == e # NoElem /\ e \in ElemsOf(Layout(page))

\* shouldProcessInput
shouldProcessInput(e, hasError) ==
  IF hasError /\ ~dom[e].invalid THEN FALSE ELSE TRUE

\* entry of analyzePageFields(hasError) up to its first await: the labels are
\* collected, and the date icon, when there is one, is clicked
ScanStart(r, hasError) ==
  LET r1 == [r EXCEPT !.hasError = hasError, !.scanPage = page, !.fsPage = page,
                      !.idx = 1, !.dispatched = {}, !.legends = {},
                      !.failed = {},
                      !.navTried = FALSE, !.prevStep = 0, !.tries = 0,
                      !.lastBtn = "none"]
  IN  IF HasDateIcon(Layout(page))
        THEN [r1 EXCEPT !.pc = "dateWait"]
        ELSE [r1 EXCEPT !.pc = "fieldsets"]

\* variant: the handler is called without await, so the loop goes on to the
\* next element while the handler is suspended
AwaitHandler_Detached(r) ==
  [r EXCEPT !.open = @ + 1, !.pc = r.ret, !.idx = r.idx + 1]

\* "await processInputElement(...)" / "await handleRadioGroupInput(...)": the
\* handler has suspended at r.pc and the calling loop is suspended with it;
\* open counts the handlers of the invocation that have not returned
AwaitHandler(r) == [r EXCEPT !.open = @ + 1]

\* generateText is called: one more request of the invocation is in flight,
\* and one more request was issued by the handler that is running
Requested(r) == [r EXCEPT !.pending = @ + 1, !.reqs = @ + 1]

\* the awaited generateText has settled
Answered(r) == [r EXCEPT !.pending = @ - 1]

\* a handler has returned to the loop that called it; when its error was
\* rethrown the catch block of analyzePageFields ends the invocation
Resume(r, code) ==
  LET r1 == [r EXCEPT !.el = NoElem, !.label = Empty, !.opts = << >>,
                      !.nested = FALSE, !.itemType = "none", !.typing = << >>,
                      !.ret = "none",
                      !.open = IF r.pc \in HandlerPcs THEN @ - 1 ELSE @,
                      !.reqs = 0, !.evlog = << >>, !.answer = Empty,
                      !.failed = IF code = "none" \/ r.ret # "labels"
                                   THEN @ ELSE @ \cup {r.idx}]
  IN  IF code # "none" /\ handleError(code)
        THEN [r1 EXCEPT !.pc = "returned"]
        ELSE [r1 EXCEPT !.pc = r.ret, !.idx = r.idx + 1]

\* the message listener calls analyzePageFields()
Start(i) ==
  /\ inv[i].pc = "idle"
  /\ \A j \in Inv \ {i} : inv[j].pc \in {"idle", "answered"}
  /\ \A j \in Inv : j < i => inv[j].pc # "idle"
  /\ inv' = [inv EXCEPT ![i] = ScanStart(inv[i], FALSE)]
  /\ last' = NoEvent
  /\ UNCHANGED <<page, dom, dateVal, maxRetryCountForCurrentPage,
                 saveButtonDataAutomationId, clickPending, navClicks,
                 fullDone, left>>

\* handleDateInput after its delay: today's date is clicked
DateToday(i) ==
  /\ inv[i].pc = "dateWait"
  /\ CanRun(i)
  /\ dateVal' = IF HasDateIcon(Layout(page)) THEN "today" ELSE dateVal
  /\ inv' = [inv EXCEPT ![i] = [@ EXCEPT !.pc = "fieldsets", !.fsPage = page]]
  /\ last' = Event(i, "date", NoElem, << >>, NoReply, "none", "none", << >>,
                   FALSE, FALSE)
  /\ UNCHANGED <<page, dom, maxRetryCountForCurrentPage,
                 saveButtonDataAutomationId, clickPending, navClicks,
                 fullDone, left>>

(***************************************************************************)
(* Field handlers: the run from the dispatch to the handler's first await  *)
(***************************************************************************)
\* variant: a handler whose response failed asks the model again
Fail_Retry(i, r, kind, opts, reply, code, cause) ==
  /\ last' = Event(i, kind, r.el, opts, reply, code, cause, << >>,
                   dom[r.el].checked, dom[r.el].checked)
  /\ inv' = [inv EXCEPT ![i] = IF reply.kind = "none" THEN Resume(r, code)
                                ELSE Requested(r)]

\* a step of a handler threw: the handler's catch block takes the error
Fail(i, r, kind, opts, reply, code, cause) ==
  /\ last' = Event(i, kind, r.el, opts, reply, code, cause, << >>,
                   dom[r.el].checked, dom[r.el].checked)
  /\ inv' = [inv EXCEPT ![i] = Resume(r, code)]

\* handleSelectInput: validateInputs, then openSelectDropdown up to its delay
SelectBegin(i, r) ==
  IF Trim(r.label) = Empty
    THEN Fail(i, r, "select", << >>, NoReply, "INVALID_LABEL", "InvalidInput")
         /\ UNCHANGED dom
    ELSE /\ dom' = [dom EXCEPT ![r.el].list = 1]
         /\ inv' = [inv EXCEPT ![i] = AwaitHandler([r EXCEPT !.pc = "selOpen"])]
         /\ last' = NoEvent

\* handleMultiSelectInput: validateInputs, click, delay
MultiSelectBegin(i, r) ==
  IF Trim(r.label) = Empty
    THEN Fail(i, r, "multiSelect", << >>, NoReply, "INVALID_LABEL", "InvalidInput")
         /\ UNCHANGED dom
    ELSE /\ dom' = [dom EXCEPT ![r.el].list = 1]
         /\ inv' = [inv EXCEPT ![i] = AwaitHandler([r EXCEPT !.pc = "msOpen"])]
         /\ last' = NoEvent

\* handleRadioGroupInput: validateInputs, getLabelInputPairs, then the request
RadioBegin(i, r) ==
  /\ UNCHANGED dom
  /\ IF Trim(r.label) = Empty
       THEN Fail(i, r, "radioGroup", << >>, NoReply, "INVALID_LABEL", "InvalidInput")
       ELSE IF Len(RadioOptionIds(r.el)) = 0
         THEN Fail(i, r, "radioGroup", << >>, NoReply, "NO_OPTIONS_FOUND", "NoOptionsFound")
         ELSE /\ inv' = [inv EXCEPT ![i] =
                           AwaitHandler(Requested(
                             [r EXCEPT !.pc = "rgAI", !.opts = RadioIds(r.el)]))]
              /\ last' = NoEvent

\* handleCheckboxInput: validateInputs, getCheckboxState, then the request
CheckboxBegin(i, r) ==
  /\ UNCHANGED dom
  /\ IF Trim(r.label) = Empty
       THEN Fail(i, r, "checkbox", << >>, NoReply, "INVALID_LABEL", "InvalidInput")
       ELSE IF ~isCheckboxInput(r.el)
         THEN Fail(i, r, "checkbox", << >>, NoReply, "INVALID_INPUT_TYPE", "InvalidInput")
         ELSE /\ inv' = [inv EXCEPT ![i] =
                           AwaitHandler(Requested([r EXCEPT !.pc = "cbAI"]))]
              /\ last' = NoEvent

\* variant: the request is issued whatever the class of the element
TextBegin_AnyElement(i, r) ==
  /\ UNCHANGED dom
  /\ inv' = [inv EXCEPT ![i] = AwaitHandler(Requested([r EXCEPT !.pc = "txAI"]))]
  /\ last' = NoEvent

\* handleTextInput: the instanceof test, then the request
TextBegin(i, r) ==
  /\ UNCHANGED dom
  /\ IF ~Elem(r.el).isInput
       THEN /\ last' = Event(i, "text", r.el, << >>, NoReply, "none", "NotAnInput",
                             << >>, FALSE, FALSE)
            /\ inv' = [inv EXCEPT ![i] = Resume(r, "none")]
       ELSE /\ inv' = [inv EXCEPT ![i] =
                         AwaitHandler(Requested([r EXCEPT !.pc = "txAI"]))]
            /\ last' = NoEvent

\* processInputElement
processInputElement(i, r) ==
  LET h == HandlerFor(r.el)
  IN  CASE h = "select" -> SelectBegin(i, r)
        [] h = "multiSelect" -> MultiSelectBegin(i, r)
        [] h = "radioGroup" -> RadioBegin(i, r)
        [] h = "checkbox" -> CheckboxBegin(i, r)
        [] h = "text" -> TextBegin(i, r)
        [] OTHER -> /\ inv' = [inv EXCEPT ![i] = Resume(r, "none")]
                    /\ last' = NoEvent
                    /\ UNCHANGED dom

\* processFieldsets: one iteration of the legend loop
ProcessLegend(i) ==
  LET r == inv[i]
      legs == LegendsOf(Layout(r.fsPage))
      skip == [r EXCEPT !.idx = r.idx + 1]
  IN  /\ r.pc = "fieldsets"
      /\ CanRun(i)
      /\ IF r.idx > Len(legs)
           THEN /\ inv' = [inv EXCEPT ![i] = [r EXCEPT !.pc = "labels", !.idx = 1]]
                /\ last' = NoEvent
                /\ UNCHANGED dom
           ELSE LET leg == legs[r.idx]
                    e == leg.for
                IN  IF ~InDocument(e) \/ ~shouldProcessInput(e, r.hasError)
                       \/ Elem(e).widget # "radioGroup"
                      THEN /\ inv' = [inv EXCEPT ![i] = skip]
                           /\ last' = NoEvent
                           /\ UNCHANGED dom
                      ELSE RadioBegin(i, [r EXCEPT !.ret = "fieldsets", !.el = e,
                                                   !.label = Trim(leg.text),
                                                   !.legends = @ \cup {r.idx}])
      /\ UNCHANGED <<page, dateVal, maxRetryCountForCurrentPage,
                     saveButtonDataAutomationId, clickPending, navClicks,
                     fullDone, left>>

\* analyzePageFields: one iteration of the label loop; after the last label
\* handleNavigation is called
ProcessLabel(i) ==
  LET r == inv[i]
      labs == LabelsOf(Layout(r.scanPage))
      skip == [r EXCEPT !.idx = r.idx + 1]
  IN  /\ r.pc = "labels"
      /\ CanRun(i)
      /\ IF r.idx > Len(labs)
           THEN /\ inv' = [inv EXCEPT ![i] = [r EXCEPT !.pc = "nav", !.navTried = TRUE]]
                /\ last' = NoEvent
                /\ fullDone' = IF r.hasError THEN fullDone ELSE fullDone \cup {r.scanPage}
                /\ UNCHANGED dom
           ELSE LET lab == labs[r.idx]
                    e == lab.for
                IN  /\ UNCHANGED fullDone
                    /\ IF ~InDocument(e) \/ ~shouldProcessInput(e, r.hasError)
                         THEN /\ inv' = [inv EXCEPT ![i] = skip]
                              /\ last' = NoEvent
                              /\ UNCHANGED dom
                         ELSE processInputElement(i,
                                [r EXCEPT !.ret = "labels", !.el = e,
                                          !.label = Trim(lab.text),
                                          !.dispatched = @ \cup {r.idx}])
      /\ UNCHANGED <<page, dateVal, maxRetryCountForCurrentPage,
                     saveButtonDataAutomationId, clickPending, navClicks, left>>

(***************************************************************************)
(* Field handlers: the runs that follow a delay or a model response        *)
(***************************************************************************)
HandlerFrame ==
  UNCHANGED <<page, dateVal, maxRetryCountForCurrentPage,
              saveButtonDataAutomationId, clickPending, navClicks, fullDone, left>>

\* ids that document.getElementById finds among the listed options of an
\* element; the list may have closed while the handler was waiting
ListedIds(e, present) ==
  IF present THEN SeqToSet(OptionIds(e, dom[e].list)) ELSE {}

\* getSelectOptions / getOptions: the options listed now, or the error code
CollectOutcomes == {"ok", "LISTBOX_NOT_FOUND", "NO_OPTIONS"}

\* selectInput: getSelectOptions, then the request of selectOptionWithAI
SelectCollect(i) ==
  LET r == inv[i]
  IN  /\ r.pc = "selOpen"
      /\ CanRun(i)
      /\ \E out \in CollectOutcomes :
           IF out = "ok"
             THEN /\ inv' = [inv EXCEPT ![i] =
                       Requested([r EXCEPT !.pc = "selAI",
                                           !.opts = OptionIds(r.el, dom[r.el].list)])]
                  /\ last' = NoEvent
             ELSE Fail(i, r, "select", << >>, NoReply, out, "MissingDomStructure")
      /\ UNCHANGED dom
      /\ HandlerFrame

\* selectInput: the rest of selectOptionWithAI, then clickOption
SelectResolve(i) ==
  LET r == Answered(inv[i])
  IN  /\ r.pc = "selAI"
      /\ CanRun(i)
      /\ \E reply \in OptionReplies, present \in BOOLEAN :
           LET valid == parseAIResponse(reply) /\ validateAIResponse(reply, r.opts)
           IN  IF ~valid
                 THEN /\ Fail(i, r, "select", r.opts, reply, AIErrorCode("select"),
                              AIErrorCause(reply, valid))
                      /\ UNCHANGED dom
                 ELSE IF reply.id \notin ListedIds(r.el, present)
                   THEN /\ Fail(i, r, "select", r.opts, reply, "OPTION_NOT_FOUND",
                                "ElementNotFound")
                        /\ dom' = [dom EXCEPT ![r.el].list = 0]
                   ELSE /\ dom' = [dom EXCEPT ![r.el].value = reply.id, ![r.el].list = 0]
                        /\ last' = Event(i, "select", r.el, r.opts, reply, "none", "none",
                                         <<reply.id>>, FALSE, FALSE)
                        /\ inv' = [inv EXCEPT ![i] = Resume(r, "none")]
      /\ HandlerFrame

\* multiSelect: getControlId, getOptions, getMultiSelectType, then the
\* request; type is the data-uxi-multiselectlistitem-type of the first option
CollectPrimary(i, type) ==
  LET r == inv[i]
  IN  /\ r.pc = "msOpen"
      /\ CanRun(i)
      /\ \E out \in {"ok", "NO_OPTIONS"} :
           IF out = "ok"
             THEN /\ inv' = [inv EXCEPT ![i] =
                       Requested([r EXCEPT !.pc = "msAI",
                                   !.opts = OptionIds(r.el, dom[r.el].list),
                                   !.itemType = type,
                                   !.nested = (getMultiSelectType(type) = "2")])]
                  /\ last' = NoEvent
             ELSE Fail(i, r, "multiSelect", << >>, NoReply, out, "NoOptionsFound")
      /\ UNCHANGED dom
      /\ HandlerFrame

\* the multi-select of the form lists the items of FirstItemType
MultiSelectCollect(i) == CollectPrimary(i, FirstItemType(inv[i].el))

\* multiSelect: the rest of selectOption, clickOption of the primary option,
\* and for a nested list the delay of handleNestedSelection
MultiSelectResolve(i) ==
  LET r == Answered(inv[i])
  IN  /\ r.pc = "msAI"
      /\ CanRun(i)
      /\ \E reply \in OptionReplies, present \in BOOLEAN :
           LET valid == parseAIResponse(reply) /\ validateMultiSelectResponse(reply, r.opts)
               id == multiSelectReturn(reply)
           IN  IF ~valid
                 THEN /\ Fail(i, r, "multiSelect", r.opts, reply,
                              AIErrorCode("multiSelect"), AIErrorCause(reply, valid))
                      /\ UNCHANGED dom
                 ELSE IF id \notin ListedIds(r.el, present)
                   THEN /\ Fail(i, r, "multiSelect", r.opts, reply, "OPTION_NOT_FOUND",
                                "ElementNotFound")
                        /\ dom' = [dom EXCEPT ![r.el].list = 0]
                   ELSE /\ last' = Event(i, "multiSelect", r.el, r.opts, reply, "none",
                                         "none", <<id>>, FALSE, FALSE)
                        /\ IF r.nested
                             THEN /\ dom' = [dom EXCEPT ![r.el].list = 2]
                                  /\ inv' = [inv EXCEPT ![i] =
                                               [r EXCEPT !.pc = "msNestedWait"]]
                             ELSE /\ dom' = [dom EXCEPT ![r.el].value = id,
                                                        ![r.el].list = 0]
                                  /\ inv' = [inv EXCEPT ![i] = Resume(r, "none")]
      /\ HandlerFrame

\* multiSelect.handleNestedSelection: getOptions, then the request
NestedCollect(i) ==
  LET r == inv[i]
  IN  /\ r.pc = "msNestedWait"
      /\ CanRun(i)
      /\ \E out \in {"ok", "NO_OPTIONS"} :
           IF out = "ok"
             THEN /\ inv' = [inv EXCEPT ![i] =
                       Requested([r EXCEPT !.pc = "msNestedAI",
                                   !.opts = OptionIds(r.el, dom[r.el].list)])]
                  /\ last' = NoEvent
             ELSE Fail(i, r, "multiSelect", << >>, NoReply, out, "NoOptionsFound")
      /\ UNCHANGED dom
      /\ HandlerFrame

\* multiSelect.handleNestedSelection: the rest of selectOption, then clickOption
NestedResolve(i) ==
  LET r == Answered(inv[i])
  IN  /\ r.pc = "msNestedAI"
      /\ CanRun(i)
      /\ \E reply \in OptionReplies, present \in BOOLEAN :
           LET valid == parseAIResponse(reply) /\ validateMultiSelectResponse(reply, r.opts)
               id == multiSelectReturn(reply)
           IN  IF ~valid
                 THEN /\ Fail(i, r, "multiSelect", r.opts, reply,
                              AIErrorCode("multiSelect"), AIErrorCause(reply, valid))
                      /\ UNCHANGED dom
                 ELSE IF id \notin ListedIds(r.el, present)
                   THEN /\ Fail(i, r, "multiSelect", r.opts, reply, "OPTION_NOT_FOUND",
                                "ElementNotFound")
                        /\ dom' = [dom EXCEPT ![r.el].list = 0]
                   ELSE /\ last' = Event(i, "multiSelect", r.el, r.opts, reply, "none",
                                         "none", <<id>>, FALSE, FALSE)
                        /\ dom' = [dom EXCEPT ![r.el].value = id, ![r.el].list = 0]
                        /\ inv' = [inv EXCEPT ![i] = Resume(r, "none")]
      /\ HandlerFrame

\* radioGroup.clickSelectedOption: the pair with the selected id has an input
RadioInputFound(e, id) ==
  \E k \in 1..Len(RadioOptionIds(e)) :
     /\ RadioOptionIds(e)[k].inputId = id
     /\ RadioOptionIds(e)[k].input
     /\ \A m \in 1..(k - 1) : RadioOptionIds(e)[m].inputId # id

\* radioGroup: the rest of selectOptionWithAI, then clickSelectedOption
RadioResolve(i) ==
  LET r == Answered(inv[i])
  IN  /\ r.pc = "rgAI"
      /\ CanRun(i)
      /\ \E reply \in OptionReplies :
           LET valid == parseAIResponse(reply) /\ validateRadioResponse(reply, r.opts)
           IN  IF ~valid
                 THEN /\ Fail(i, r, "radioGroup", r.opts, reply,
                              AIErrorCode("radioGroup"), AIErrorCause(reply, valid))
                      /\ UNCHANGED dom
                 ELSE IF ~RadioInputFound(r.el, reply.id)
                   THEN /\ Fail(i, r, "radioGroup", r.opts, reply, "OPTION_NOT_FOUND",
                                "ElementNotFound")
                        /\ UNCHANGED dom
                   ELSE /\ dom' = [dom EXCEPT ![r.el].value = reply.id]
                        /\ last' = Event(i, "radioGroup", r.el, r.opts, reply, "none",
                                         "none", <<reply.id>>, FALSE, FALSE)
                        /\ inv' = [inv EXCEPT ![i] = Resume(r, "none")]
      /\ HandlerFrame

\* variant: the checkbox is clicked whatever its state
updateCheckboxState_Always(checked, desiredState) == TRUE

\* checkbox.updateCheckboxState: whether the checkbox is clicked
updateCheckboxState(checked, desiredState) ==
  LET shouldBeChecked == desiredState = "checked"
  IN  checked # shouldBeChecked

\* checkbox: the rest of determineDesiredState, then updateCheckboxState
CheckboxResolve(i) ==
  LET r == Answered(inv[i])
      before == dom[r.el].checked
  IN  /\ r.pc = "cbAI"
      /\ CanRun(i)
      /\ \E reply \in CheckboxReplies :
           LET valid == parseAIResponse(reply) /\ validateCheckboxResponse(reply)
               click == updateCheckboxState(before, reply.state)
               after == IF click THEN ~before ELSE before
           IN  IF ~valid
                 THEN /\ Fail(i, r, "checkbox", << >>, reply, AIErrorCode("checkbox"),
                              AIErrorCause(reply, valid))
                      /\ UNCHANGED dom
                 ELSE /\ dom' = [dom EXCEPT ![r.el].checked = after]
                      /\ last' = Event(i, "checkbox", r.el, << >>, reply, "none", "none",
                                       << >>, before, after)
                      /\ inv' = [inv EXCEPT ![i] = Resume(r, "none")]
      /\ HandlerFrame

\* an event dispatched on, or a call made on, the input element, with the
\* key of a keyboard event and the element's value at that moment
DomEvent(t, k, v) == [type |-> t, key |-> k, value |-> v]

\* simulateTyping before its loop: the value is cleared, the element focused
ClearInput(old) == << DomEvent("clear", "", old), DomEvent("focus", "", Empty) >>

\* variant: the character is appended before keydown is dispatched
TypeChar_AppendFirst(v, c) ==
  << DomEvent("keydown", c, Append(v, c)), DomEvent("input", "", Append(v, c)),
     DomEvent("keyup", c, Append(v, c)) >>

\* simulateTyping: one iteration of its loop, up to the delay
TypeChar(v, c) ==
  << DomEvent("keydown", c, v), DomEvent("input", "", Append(v, c)),
     DomEvent("keyup", c, Append(v, c)) >>

\* simulateTyping after its loop: the change event, then the field is left
LeaveField(v) ==
  << DomEvent("change", "", v), DomEvent("focus", "", v), DomEvent("blur", "", v),
     DomEvent("click", "", v), DomEvent("focus", "", v), DomEvent("blur", "", v) >>

\* textInput: parse of the response, then simulateTyping up to its first await
TextResolve(i) ==
  LET r == Answered(inv[i])
  IN  /\ r.pc = "txAI"
      /\ CanRun(i)
      /\ \E reply \in TextReplies :
           IF reply.kind = "throw" \/ ~parseAIResponse(reply) \/ ~reply.isString
             THEN /\ last' = Event(i, "text", r.el, << >>, reply, "none",
                                   AIErrorCause(reply, reply.isString), << >>, FALSE, FALSE)
                  /\ inv' = [inv EXCEPT ![i] = Resume(r, "none")]
                  /\ UNCHANGED dom
             ELSE LET ev == Event(i, "text", r.el, << >>, reply, "none", "none",
                                  << >>, FALSE, FALSE)
                      old == dom[r.el].value
                  IN  IF reply.value = << >>
                        THEN /\ dom' = [dom EXCEPT ![r.el].value = << >>]
                             /\ last' = [ev EXCEPT
                                           !.log = ClearInput(old) \o LeaveField(<< >>)]
                             /\ inv' = [inv EXCEPT ![i] = Resume(r, "none")]
                        ELSE /\ dom' = [dom EXCEPT ![r.el].value = <<Head(reply.value)>>]
                             /\ last' = ev
                             /\ inv' = [inv EXCEPT ![i] =
                                   [r EXCEPT !.pc = "txTyping",
                                             !.typing = Tail(reply.value),
                                             !.answer = reply.value,
                                             !.evlog = ClearInput(old) \o
                                                TypeChar(<< >>, Head(reply.value))]]
      /\ HandlerFrame

\* simulateTyping: the next character, or after the last one the change event
TextType(i) ==
  LET r == inv[i]
  IN  /\ r.pc = "txTyping"
      /\ CanRun(i)
      /\ IF r.typing = << >>
           THEN /\ inv' = [inv EXCEPT ![i] = Resume(r, "none")]
                /\ last' = [Event(i, "typed", r.el, << >>, NoReply, "none", "none",
                                  << >>, FALSE, FALSE)
                              EXCEPT !.log = r.evlog \o LeaveField(dom[r.el].value),
                                     !.answer = r.answer]
                /\ UNCHANGED dom
           ELSE /\ dom' = [dom EXCEPT ![r.el].value = Append(@, Head(r.typing))]
                /\ last' = NoEvent
                /\ inv' = [inv EXCEPT ![i] =
                      [r EXCEPT !.typing = Tail(r.typing),
                                !.evlog = @ \o TypeChar(dom[r.el].value,
                                                        Head(r.typing))]]
      /\ HandlerFrame

(***************************************************************************)
(* handleNavigation                                                        *)
(***************************************************************************)
\* handleNavigation returns at a console.warn: the error is recorded, nothing
\* is thrown
NavReturn(r, err) ==
  [r EXCEPT !.pc = "returned", !.pageErr = err, !.threw = FALSE]

\* handleNavigation from the querySelector of the next button to the delay
\* that follows the click
ClickNext(i, r, id) ==
  IF id \notin ButtonsOn(page)
    THEN /\ inv' = [inv EXCEPT ![i] = NavReturn(r, "NavigationNotFound")]
         /\ UNCHANGED <<saveButtonDataAutomationId, clickPending, navClicks>>
    ELSE /\ saveButtonDataAutomationId' = id
         /\ clickPending' = id
         /\ navClicks' = [navClicks EXCEPT ![page] = @ + 1]
         /\ inv' = [inv EXCEPT ![i] = [r EXCEPT !.pc = "settle",
                                                !.prevStep = StepText(page)]]

\* variant: the cached id is never used
UseCached_Never(saved) == FALSE

\* handleNavigation: "saveButtonDataAutomationId ? saveButtonDataAutomationId
\* : await getCorrectDataAutomationId()"
UseCached(saved) == saved # "none"

\* handleNavigation: the retry test, the cached id or the first request of
\* getCorrectDataAutomationId
Navigate(i) ==
  LET r == inv[i]
  IN  /\ r.pc = "nav"
      /\ CanRun(i)
      /\ last' = NoEvent
      /\ IF RetriesExhausted(maxRetryCountForCurrentPage)
           THEN /\ inv' = [inv EXCEPT ![i] = NavReturn(r, "MaxRetries")]
                /\ UNCHANGED <<saveButtonDataAutomationId, clickPending, navClicks>>
           ELSE IF UseCached(saveButtonDataAutomationId)
             THEN ClickNext(i, r, saveButtonDataAutomationId)
             ELSE IF ButtonsOn(page) = {}
               THEN ClickNext(i, r, "null")
               ELSE /\ inv' = [inv EXCEPT ![i] = [r EXCEPT !.pc = "btnAI", !.tries = 1]]
                    /\ UNCHANGED <<saveButtonDataAutomationId, clickPending, navClicks>>
      /\ UNCHANGED <<page, dom, dateVal, maxRetryCountForCurrentPage, fullDone, left>>

\* variant: after one wrong answer the resolution gives up
AttemptsExhausted_AfterOne(tries) == tries >= 1

\* getCorrectDataAutomationId: the else branch recurses whatever the number
\* of requests already made
AttemptsExhausted(tries) == FALSE

\* getCorrectDataAutomationId after a response: the id, null, or another request
ButtonResolve(i) ==
  LET r == inv[i]
  IN  /\ r.pc = "btnAI"
      /\ CanRun(i)
      /\ last' = NoEvent
      /\ \E reply \in ButtonReplies :
           LET r1 == [r EXCEPT !.lastBtn = reply]
           IN  IF reply \in {"throw", "garbage"}
                 THEN ClickNext(i, r1, "null")
                 ELSE IF reply \in ButtonsOn(page)
                   THEN ClickNext(i, r1, reply)
                   ELSE IF AttemptsExhausted(r.tries)
                     THEN ClickNext(i, r1, "null")
                     ELSE /\ r.tries < MaxBtnAttempts
                          /\ inv' = [inv EXCEPT ![i] =
                                       [r1 EXCEPT !.tries = r.tries + 1]]
                          /\ UNCHANGED <<saveButtonDataAutomationId, clickPending,
                                         navClicks>>
      /\ UNCHANGED <<page, dom, dateVal, maxRetryCountForCurrentPage, fullDone, left>>

\* the page reacts to the click within the settle delay: the next control
\* either opens the next page or flags fields as invalid; any other button
\* leaves the page as it is
PageReact ==
  /\ clickPending # "none"
  /\ clickPending' = "none"
  /\ last' = NoEvent
  /\ \/ /\ clickPending = "next"
        /\ page' = page + 1
        /\ dom' = FreshDom
        /\ dateVal' = "none"
        /\ left' = left \cup {page}
     \/ /\ clickPending = "next"
        /\ \E bad \in SUBSET Validated(Layout(page)) :
             dom' = [e \in ElemNames |-> [dom[e] EXCEPT !.invalid = (e \in bad)]]
        /\ UNCHANGED <<page, dateVal, left>>
     \/ /\ clickPending # "next"
        /\ UNCHANGED <<page, dom, dateVal, left>>
  /\ UNCHANGED <<maxRetryCountForCurrentPage, saveButtonDataAutomationId, inv,
                 navClicks, fullDone>>

\* handleNavigation after the delay: the indicator is read again and compared
AfterDelay(i) ==
  LET r == inv[i]
      currentStep == StepText(page)
  IN  /\ r.pc = "settle"
      /\ CanRun(i)
      /\ last' = NoEvent
      /\ IF r.prevStep = currentStep
           THEN /\ maxRetryCountForCurrentPage' =
                      RetryAfterUnchanged(maxRetryCountForCurrentPage)
                /\ inv' = [inv EXCEPT ![i] = ScanStart(r, RescanAfterUnchanged)]
           ELSE /\ maxRetryCountForCurrentPage' =
                      RetryAfterChanged(maxRetryCountForCurrentPage)
                /\ inv' = [inv EXCEPT ![i] = ScanStart(r, RescanAfterChanged)]
      /\ UNCHANGED <<page, dom, dateVal, saveButtonDataAutomationId, clickPending,
                     navClicks, fullDone, left>>

\* the delay of handleNavigation ends after the page has reacted to the click
Compare(i) ==
  /\ clickPending = "none"
  /\ AfterDelay(i)

\* variant: the response is sent while the chain is still at a settle delay
Answer_Early(i) ==
  LET r == inv[i]
  IN  /\ r.pc \in {"returned", "settle"}
      /\ CanRun(i)
      /\ last' = NoEvent
      /\ inv' = [inv EXCEPT ![i] =
                   [r EXCEPT !.pc = "answered", !.lastBtn = "none",
                             !.status = IF r.threw THEN "error" ELSE "done"]]
      /\ UNCHANGED <<page, dom, dateVal, maxRetryCountForCurrentPage,
                     saveButtonDataAutomationId, clickPending, navClicks,
                     fullDone, left>>

\* the listener's then/catch: sendResponse
Answer(i) ==
  LET r == inv[i]
  IN  /\ r.pc = "returned"
      /\ CanRun(i)
      /\ last' = NoEvent
      /\ inv' = [inv EXCEPT ![i] =
                   [r EXCEPT !.pc = "answered", !.lastBtn = "none",
                             !.status = IF r.threw THEN "error" ELSE "done"]]
      /\ UNCHANGED <<page, dom, dateVal, maxRetryCountForCurrentPage,
                     saveButtonDataAutomationId, clickPending, navClicks,
                     fullDone, left>>

Next ==
  \/ \E i \in Inv : Start(i)
  \/ \E i \in Inv : DateToday(i)
  \/ \E i \in Inv : ProcessLegend(i)
  \/ \E i \in Inv : ProcessLabel(i)
  \/ \E i \in Inv : SelectCollect(i)
  \/ \E i \in Inv : SelectResolve(i)
  \/ \E i \in Inv : MultiSelectCollect(i)
  \/ \E i \in Inv : MultiSelectResolve(i)
  \/ \E i \in Inv : NestedCollect(i)
  \/ \E i \in Inv : NestedResolve(i)
  \/ \E i \in Inv : RadioResolve(i)
  \/ \E i \in Inv : CheckboxResolve(i)
  \/ \E i \in Inv : TextResolve(i)
  \/ \E i \in Inv : TextType(i)
  \/ \E i \in Inv : Navigate(i)
  \/ \E i \in Inv : ButtonResolve(i)
  \/ PageReact
  \/ \E i \in Inv : Compare(i)
  \/ \E i \in Inv : Answer(i)

Spec == Init /\ [][Next]_vars

(***************************************************************************)
(* Start commands that overlap.  The listener has no guard: a start        *)
(* command that arrives while an earlier invocation is suspended at an     *)
(* await begins a second chain on the same globals.                        *)
(***************************************************************************)
Active(i) == inv[i].pc \notin {"idle", "answered"}

\* the await at which the later start command is delivered: the model call of
\* the button resolution
OverlapPoints == {"btnAI"}

\* the listener calls analyzePageFields() while an earlier invocation is
\* suspended on the last form page
StartOverlapping(i) ==
  /\ inv[i].pc = "idle"
  /\ CanRun(i)
  /\ page = NumPages
  /\ \E j \in Inv \ {i} : inv[j].pc \in OverlapPoints
  /\ \A j \in Inv : j < i => inv[j].pc # "idle"
  /\ inv' = [inv EXCEPT ![i] = ScanStart(inv[i], FALSE)]
  /\ last' = NoEvent
  /\ UNCHANGED <<page, dom, dateVal, maxRetryCountForCurrentPage,
                 saveButtonDataAutomationId, clickPending, navClicks,
                 fullDone, left>>

NextOverlap ==
  \/ Next
  \/ \E i \in Inv : StartOverlapping(i)

SpecOverlap == Init /\ [][NextOverlap]_vars

(***************************************************************************)
(* Scheduling.  The event loop runs every continuation whose await has     *)
(* settled, timers fire, every model request is answered, and the page     *)
(* reacts to a click.  Start commands are up to the user: no fairness.     *)
(***************************************************************************)
Step(i) ==
  \/ DateToday(i)
  \/ ProcessLegend(i)
  \/ ProcessLabel(i)
  \/ SelectCollect(i)
  \/ SelectResolve(i)
  \/ MultiSelectCollect(i)
  \/ MultiSelectResolve(i)
  \/ NestedCollect(i)
  \/ NestedResolve(i)
  \/ RadioResolve(i)
  \/ CheckboxResolve(i)
  \/ TextResolve(i)
  \/ TextType(i)
  \/ Navigate(i)
  \/ ButtonResolve(i)
  \/ Compare(i)
  \/ Answer(i)

Fairness == WF_vars((\E i \in Inv : Step(i)) \/ PageReact)

\* the only start command of a session
FirstStart(i) ==
  /\ \A j \in Inv : inv[j].pc = "idle"
  /\ Start(i)

NextSingle ==
  \/ \E i \in Inv : FirstStart(i)
  \/ \E i \in Inv : Step(i)
  \/ PageReact

SpecLive == Init /\ [][NextSingle]_vars /\ Fairness

(***************************************************************************)
(* A slow page.  The delay of handleNavigation is a fixed 6 s; a page that *)
(* takes longer to react to the click changes after the indicator has been *)
(* read and compared.                                                      *)
(***************************************************************************)
\* the delay of handleNavigation ends while the page has not yet reacted
CompareLate(i) ==
  /\ clickPending # "none"
  /\ AfterDelay(i)

NextSlowPage ==
  \/ NextSingle
  \/ \E i \in Inv : CompareLate(i)

SpecSlowPage == Init /\ [][NextSlowPage]_vars

(***************************************************************************)
(* A single-level list.  The items of the multi-select carry no item type, *)
(* so that the handler takes the list for MultiSelectType.Single.          *)
(***************************************************************************)
PlainItemType == "none"

MultiSelectCollectPlain(i) == CollectPrimary(i, PlainItemType)

NextPlainItems ==
  \/ NextSingle
  \/ \E i \in Inv : MultiSelectCollectPlain(i)

SpecPlainItems == Init /\ [][NextPlainItems]_vars

(***************************************************************************)
(* Properties                                                              *)
(***************************************************************************)
OptionKinds == {"select", "multiSelect", "radioGroup"}

\* C1: for a select, multi-select or radio group, a response whose id is not
\* exactly one of the collected option ids is rejected as an invalid
\* selection and no option element is clicked
C1_StrictMembership ==
  (/\ last.kind \in OptionKinds
   /\ last.reply.kind = "json"
   /\ last.reply.id \notin SeqToSet(last.opts))
  => (/\ last.clicked = << >>
      /\ last.code = AIErrorCode(last.kind)
      /\ last.cause = "InvalidSelection")

\* a response that differs from a listed id only by a leading blank was rejected
C1_Witness ==
  /\ last.kind \in OptionKinds
  /\ last.reply.id = SpA
  /\ A \in SeqToSet(last.opts)
  /\ last.clicked = << >>
  /\ last.cause = "InvalidSelection"

ScanPcs == {"dateWait", "fieldsets"}

C3_ChangedResets ==
  [][\A i \in Inv :
       (/\ inv[i].pc = "settle"
        /\ inv'[i].pc # "settle"
        /\ inv[i].prevStep # StepText(page))
       => (/\ maxRetryCountForCurrentPage' = 3
           /\ inv'[i].pc \in ScanPcs
           /\ inv'[i].scanPage = page
           /\ ~inv'[i].hasError)]_vars

\* the budget is 3 again on a page reached by the third click on the page before
C3_Witness ==
  \E i \in Inv :
     /\ inv[i].pc \in ScanPcs
     /\ ~inv[i].hasError
     /\ page > 1
     /\ inv[i].scanPage = page
     /\ navClicks[page - 1] = 3
     /\ navClicks[page] = 0
     /\ maxRetryCountForCurrentPage = 3

\* C4 as stated: once the retries of a page are exhausted a terminal error is
\* raised and the counter is back at 3
C4_Original ==
  \A i \in Inv :
     inv[i].pageErr = "MaxRetries"
     => (/\ inv[i].threw
         /\ maxRetryCountForCurrentPage = RetryBudget)

C6_Original ==
  \A i \in Inv :
     (inv[i].pc = "answered" /\ inv[i].pageErr # "none")
     => inv[i].status = "error"

\* labels of the scanned page whose element is dispatched in a pass
Eligible(r) ==
  {k \in 1..Len(LabelsOf(Layout(r.scanPage))) :
     /\ InDocument(LabelsOf(Layout(r.scanPage))[k].for)
     /\ shouldProcessInput(LabelsOf(Layout(r.scanPage))[k].for, r.hasError)}

C9_CheckboxIdempotent ==
  [][(last'.kind = "checkbox" /\ last'.code = "none")
       => (/\ dom'[last'.el].checked = (last'.reply.state = "checked")
           /\ last'.before = dom[last'.el].checked
           /\ last'.after = dom'[last'.el].checked
           /\ (dom[last'.el].checked = (last'.reply.state = "checked")
                 => dom' = dom))]_vars

\* a checkbox that an earlier resolution had checked was resolved to
\* "checked" again and not clicked
C9_Witness ==
  /\ last.kind = "checkbox"
  /\ last.code = "none"
  /\ last.reply.state = "checked"
  /\ last.before
  /\ last.after

\* C10: a select response naming a collected option whose element is in the
\* document clicks exactly that element, once
C10_SelectClicksChosen ==
  (/\ last.kind = "select"
   /\ last.reply.kind = "json"
   /\ last.reply.id \in SeqToSet(last.opts)
   /\ last.cause # "ElementNotFound")
  => (/\ last.clicked = <<last.reply.id>>
      /\ last.code = "none"
      /\ dom[last.el].value = last.reply.id)

\* options a and b were collected, the response named a, and a was clicked
C10_Witness ==
  /\ last.kind = "select"
  /\ last.opts = <<A, B>>
  /\ last.reply.id = A
  /\ last.clicked = <<A>>

\* what a retry pass does to elements that are flagged invalid only: every
\* handler position and every field event of a retry pass is on a flagged element
RetryTouchesInvalidOnly ==
  /\ \A i \in Inv :
       (inv[i].hasError /\ inv[i].pc \in HandlerPcs) => dom[inv[i].el].invalid
  /\ (last.kind \notin {"none", "date"} /\ inv[last.inv].hasError)
       => dom[last.el].invalid

\* C11 as stated: on a retry pass only elements flagged invalid are
\* reprocessed; no other element of the page gets a handler call, a model
\* request or a click
C11_Original ==
  /\ RetryTouchesInvalidOnly
  /\ \A i \in Inv : inv[i].hasError => inv[i].pc # "dateWait"
  /\ (last.kind = "date") => ~inv[last.inv].hasError

\* C12 as stated, for full passes: a field whose value is not empty when the
\* pass reaches it is not dispatched to a handler
C12_Original ==
  [][\A i \in Inv :
       (/\ inv[i].pc \in {"fieldsets", "labels"}
        /\ ~inv[i].hasError
        /\ inv'[i].pc \in HandlerPcs)
       => dom[inv'[i].el].value = Empty]_vars

\* C13: within one pass the fields are handled one after the other: an
\* invocation has at most one handler that has not returned and at most one
\* field request in flight, and its loops and its navigation run only when
\* no handler and no request of it is outstanding
C13_Sequential ==
  \A i \in Inv :
     /\ inv[i].open <= 1
     /\ inv[i].pending <= 1
     /\ inv[i].pc \notin HandlerPcs => (inv[i].open = 0 /\ inv[i].pending = 0)

\* the third handler of a pass is waiting for its response after two earlier
\* handlers of the same pass have returned
C13_Witness ==
  \E i \in Inv :
     /\ inv[i].pc = "txAI"
     /\ Cardinality(inv[i].dispatched) >= 3
     /\ inv[i].open = 1
     /\ inv[i].pending = 1

\* C14 as stated: whatever the sequence of start commands, no two fill
\* invocations are active at the same time on the retry counter and the
\* cached button id
C14_Original ==
  \A i, j \in Inv : (Active(i) /\ Active(j)) => i = j

Unrecognised ==
  {e \in ElemNames :
     /\ Elem(e).haspopup # "listbox"
     /\ Elem(e).widget \notin {"selectinput", "radioGroup"}
     /\ Elem(e).type \notin {"checkbox", "text"}
     /\ Elem(e).tag # "TEXTAREA"}

\* C16: a labelled element that matches none of the kind tests is left alone:
\* no handler runs on it, no request is issued for it, the dispatch step
\* changes nothing in the document, and no step of the program changes the
\* element (only the page's own reaction to a click does)
C16_NoFallback ==
  /\ [](\A i \in Inv : inv[i].el \notin Unrecognised)
  /\ [](last.el \notin Unrecognised)
  /\ [][\A e \in Unrecognised :
          (clickPending = "none" \/ clickPending' # "none") => dom'[e] = dom[e]]_vars
  /\ [][\A i \in Inv :
          LET labs == LabelsOf(Layout(inv[i].scanPage))
          IN  (/\ inv[i].pc = "labels"
               /\ inv[i].idx <= Len(labs)
               /\ labs[inv[i].idx].for \in Unrecognised
               /\ inv'[i] # inv[i])
              => (/\ inv'[i].pc = "labels"
                  /\ inv'[i].idx = inv[i].idx + 1
                  /\ inv'[i].pending = 0
                  /\ inv'[i].reqs = 0
                  /\ dom' = dom
                  /\ last' = NoEvent)]_vars

\* the label of the e-mail input was dispatched and the loop has gone on to
\* the label after it
C16_Witness ==
  \E i \in Inv :
     LET labs == LabelsOf(Layout(inv[i].scanPage))
     IN  /\ inv[i].pc = "labels"
         /\ inv[i].idx > 1
         /\ inv[i].idx - 1 \in inv[i].dispatched
         /\ labs[inv[i].idx - 1].for \in Unrecognised
         /\ dom[labs[inv[i].idx - 1].for] = FreshElem

\* C17 as stated: a field whose label has no target element or whose label
\* text is empty after trimming is skipped by every handler: no handler is
\* ever suspended on it (at a request, a delay or while typing) and no field
\* event other than the rejection of the label is raised for it
C17_Original ==
  /\ \A i \in Inv : inv[i].pc \in HandlerPcs => inv[i].el # NoElem
  /\ \A i \in Inv : inv[i].pc \in HandlerPcs => inv[i].label # Empty
  /\ (last.kind \notin {"none", "date"} /\ last.code # "INVALID_LABEL")
       => last.el # NoElem

\* C18 as stated: a status update is sent only for a response that passed
\* validation and was applied to the document; a rejected response produces
\* no status update
C18_Original ==
  last.status => (last.code = "none" /\ last.cause = "none")

C20_NoAttemptLimit ==
  /\ [][\A i \in Inv :
          (inv[i].pc = "btnAI" /\ inv'[i] # inv[i])
          => LET b == inv'[i].lastBtn
             IN  \/ /\ b \in ButtonsOn(page)
                    /\ inv'[i].pc = "settle"
                    /\ saveButtonDataAutomationId' = b
                    /\ clickPending' = b
                 \/ /\ b \in {"throw", "garbage"}
                    /\ inv'[i].pc = "returned"
                    /\ inv'[i].pageErr = "NavigationNotFound"
                    /\ navClicks' = navClicks
                 \/ /\ b \notin ButtonsOn(page) \cup {"throw", "garbage"}
                    /\ inv'[i].pc = "btnAI"
                    /\ inv'[i].tries = inv[i].tries + 1
                    /\ navClicks' = navClicks
                    /\ clickPending' = clickPending
                    /\ saveButtonDataAutomationId' = saveButtonDataAutomationId]_vars
  /\ [][\A i \in Inv :
          (inv[i].pc = "nav" /\ inv'[i].pc = "btnAI") => ButtonsOn(page) # {}]_vars

\* the model has named a button that is not on the page in every response so
\* far: the request was issued again each time and nothing was clicked
C20_Witness ==
  \E i \in Inv :
     /\ inv[i].pc = "btnAI"
     /\ inv[i].lastBtn = "bogus"
     /\ inv[i].tries = MaxBtnAttempts
     /\ inv[i].tries >= 2
     /\ navClicks[page] = 0
     /\ clickPending = "none"

\* C21: with every request answered and the page reacting to every click, an
\* invocation that was started is eventually answered; the answer is sent
\* once, from the end of the chain of passes and navigation steps, and an
\* answered invocation does nothing more
C21_AnsweredOnce ==
  /\ (\E i \in Inv : Active(i)) ~> (\E i \in Inv : inv[i].pc = "answered")
  /\ [][\A i \in Inv :
          /\ (inv[i].pc # "answered" /\ inv'[i].pc = "answered")
               => (inv[i].pc = "returned" /\ inv'[i].status \in {"done", "error"})
          /\ inv[i].pc = "answered" => inv'[i] = inv[i]]_vars

\* an invocation was answered after it had filled and left a page and had
\* exhausted the retries of the page after it
C21_Witness ==
  \E i \in Inv :
     /\ inv[i].pc = "answered"
     /\ inv[i].pageErr = "MaxRetries"
     /\ left # {}
     /\ navClicks[page] = RetryBudget

\* the kind tests in the order of precedence, and the first that an element passes
KindTests(e) ==
  << [kind |-> "select", pass |-> Elem(e).haspopup = "listbox"],
     [kind |-> "multiSelect", pass |-> Elem(e).widget = "selectinput"],
     [kind |-> "radioGroup", pass |-> Elem(e).widget = "radioGroup"],
     [kind |-> "checkbox", pass |-> Elem(e).type = "checkbox"],
     [kind |-> "text", pass |-> Elem(e).type = "text" \/ Elem(e).tag = "TEXTAREA"] >>

FirstMatch(e) ==
  LET t == KindTests(e)
      hits == {k \in 1..Len(t) : t[k].pass}
  IN  IF hits = {} THEN "none"
      ELSE t[CHOOSE k \in hits : \A m \in hits : k <= m].kind

\* the handler an invocation is suspended in
KindOfPc(pc) ==
  CASE pc \in {"selOpen", "selAI"} -> "select"
    [] pc \in {"msOpen", "msAI", "msNestedWait", "msNestedAI"} -> "multiSelect"
    [] pc = "rgAI" -> "radioGroup"
    [] pc = "cbAI" -> "checkbox"
    [] pc \in {"txAI", "txTyping"} -> "text"
    [] OTHER -> "none"

\* C22: the step that dispatches a labelled element runs the handler of the
\* first kind test the element passes, in the order select, multi-select,
\* radio group, checkbox, text, and no handler when it passes none
C22_Precedence ==
  [][\A i \in Inv :
       LET labs == LabelsOf(Layout(inv[i].scanPage))
           e == labs[inv[i].idx].for
           ran == IF inv'[i].pc \in HandlerPcs THEN KindOfPc(inv'[i].pc)
                  ELSE IF last'.kind \notin {"none", "date"} THEN last'.kind
                  ELSE "none"
       IN  (/\ inv[i].pc = "labels"
            /\ inv[i].idx <= Len(labs)
            /\ inv'[i] # inv[i]
            /\ InDocument(e)
            /\ shouldProcessInput(e, inv[i].hasError))
           => ran = FirstMatch(e)]_vars

\* an element that passes the listbox test and the text test is in the select
\* handler
C22_Witness ==
  \E i \in Inv :
     /\ inv[i].pc = "selOpen"
     /\ Elem(inv[i].el).type = "text"
     /\ Elem(inv[i].el).haspopup = "listbox"

\* the typing of a value has just ended: the events dispatched on the input
\* since the value was cleared, and the value that was to be typed
TypingEnded ==
  \/ last.kind = "typed"
  \/ last.kind = "text" /\ last.log # << >>

TypedValue == IF last.kind = "typed" THEN last.answer ELSE << >>

\* C23 as stated: every character of the value gets a change event of its own
\* (dispatched when the value ends with that character)
C23_Original ==
  TypingEnded =>
    \A k \in 1..Len(TypedValue) :
       \E m \in 1..Len(last.log) :
          /\ last.log[m].type = "change"
          /\ last.log[m].value = SubSeq(TypedValue, 1, k)

RECURSIVE ExpectedKeys(_, _)
ExpectedKeys(done, rest) ==
  IF rest = << >> THEN << >>
  ELSE << [type |-> "keydown", key |-> Head(rest), value |-> done],
          [type |-> "input", key |-> "", value |-> Append(done, Head(rest))],
          [type |-> "keyup", key |-> Head(rest), value |-> Append(done, Head(rest))] >>
       \o ExpectedKeys(Append(done, Head(rest)), Tail(rest))

\* C23 amended: the previous content is cleared first; then for each
\* character in order keydown is dispatched, the character is appended, and
\* input and keyup are dispatched; one change event follows the last
\* character, then the field is left; the value then equals the response value
C23_TypedCharByChar ==
  TypingEnded =>
    /\ Len(last.log) >= 2
    /\ last.log[1].type = "clear"
    /\ last.log[2] = [type |-> "focus", key |-> "", value |-> << >>]
    /\ LET n == Len(TypedValue)
           rest == SubSeq(last.log, 3, Len(last.log))
       IN  /\ Len(rest) = 3 * n + 6
           /\ SubSeq(rest, 1, 3 * n) = ExpectedKeys(<< >>, TypedValue)
           /\ [k \in 1..6 |-> rest[3 * n + k].type]
                = <<"change", "focus", "blur", "click", "focus", "blur">>
           /\ \A k \in 1..6 : rest[3 * n + k].value = TypedValue
    /\ dom[last.el].value = TypedValue

\* a value of two characters was typed over earlier content
C23_Witness ==
  /\ last.kind = "typed"
  /\ Len(last.answer) = 2
  /\ last.log[1].type = "clear"
  /\ last.log[1].value # << >>
  /\ dom[last.el].value = last.answer

\* C24 as stated: in every reachable state, overlapping start commands
\* included, the retry counter lies between 0 and the retry budget
C24_Original ==
  /\ 0 <= maxRetryCountForCurrentPage
  /\ maxRetryCountForCurrentPage <= RetryBudget

\* C25 as stated: once the cached id of the next control is non-null no step,
\* of whatever invocation, assigns it another value or clears it
C25_Original ==
  [][saveButtonDataAutomationId # "none"
       => saveButtonDataAutomationId' = saveButtonDataAutomationId]_vars

\* C26 as stated: whenever the next control is clicked, the page displayed
\* has had a full (non-retry) pass since it became the current page, also
\* when the page changes only after the delay and the comparison
C26_Original ==
  [][navClicks' # navClicks => page \in fullDone]_vars

\* the elements a pass has handed to a handler, through a legend and through
\* a label, each with the legend or label it was reached by
HandedOver(r) ==
  {<<"legend", k, LegendsOf(Layout(r.fsPage))[k].for>> : k \in r.legends}
  \cup {<<"label", k, LabelsOf(Layout(r.scanPage))[k].for>> :
          k \in {m \in r.dispatched :
                   FirstMatch(LabelsOf(Layout(r.scanPage))[m].for) # "none"}}

\* C27 as stated, in its particular case: within one pass an element that a
\* legend has handed to the radio handler is not handed to a handler again
\* through a label, so the group costs one model request per pass
C27_Original ==
  \A i \in Inv :
     \A a, b \in HandedOver(inv[i]) :
        (a[1] = "legend" /\ b[1] = "label") => a[3] # b[3]

\* the label that invocation i is about to process names an element of the
\* document that the dispatcher routes to the text handler and that is not
\* an HTMLInputElement
AtNonInputText(i) ==
  LET r == inv[i]
      labs == LabelsOf(Layout(r.scanPage))
  IN  /\ r.pc = "labels"
      /\ r.idx <= Len(labs)
      /\ labs[r.idx].for \in ElemsOf(Layout(page))
      /\ r.hasError => dom[labs[r.idx].for].invalid
      /\ FirstMatch(labs[r.idx].for) = "text"
      /\ Elem(labs[r.idx].for).tag # "INPUT"

\* C28: when the element routed to the text handler is not an
\* HTMLInputElement (every TEXTAREA) the handler returns at once: no model
\* request is issued, no value changes, no event is dispatched on the
\* element, and the loop goes on to the next label
C28_TextAreaUntouched ==
  [][\A i \in Inv :
       (AtNonInputText(i) /\ inv'[i] # inv[i])
       => (/\ inv'[i].pc = "labels"
           /\ inv'[i].idx = inv[i].idx + 1
           /\ inv'[i].pending = inv[i].pending
           /\ inv'[i].open = inv[i].open
           /\ dom' = dom
           /\ last'.log = << >>
           /\ last'.reply = NoReply
           /\ ~last'.status)]_vars

\* the text handler has just returned from the TEXTAREA of a page, with the
\* loop of the full pass at the next label
C28_Witness ==
  /\ last.kind = "text"
  /\ Elem(last.el).tag = "TEXTAREA"
  /\ last.cause = "NotAnInput"
  /\ inv[last.inv].pc = "labels"
  /\ ~inv[last.inv].hasError
  /\ dom[last.el].value = Empty

NestedPcs == {"msNestedWait", "msNestedAI"}

\* C29: the depth of a multi-select is decided from the item type of the
\* first option when the options are collected, before any selection.  A
\* validated and clicked primary option of a list of type "2" is followed by
\* the re-collection of the options, one further request validated against
\* the re-collected ids and the click of that option: two requests, two
\* clicks.  Any other list ends after one request and one click.  A failed
\* primary selection is followed by no nested request and no click
C29_SelectionDepth ==
  [][\A i \in Inv :
       LET r == inv[i]
           q == inv'[i]
       IN  /\ (r.pc = "msOpen" /\ q.pc = "msAI")
                => (/\ q.reqs = 1
                    /\ q.itemType \in {FirstItemType(r.el), PlainItemType}
                    /\ dom' = dom)
           /\ (r.pc \in {"msAI"} \cup NestedPcs /\ q.pc \in {"msAI"} \cup NestedPcs)
                => q.itemType = r.itemType
           /\ (r.pc = "msAI" /\ q.pc # "msAI")
                => (/\ r.reqs = 1
                    /\ IF last'.clicked # << >>
                         THEN /\ Len(last'.clicked) = 1
                              /\ last'.clicked[1] \in SeqToSet(r.opts)
                              /\ IF r.itemType = "2"
                                   THEN q.pc = "msNestedWait" /\ q.reqs = 1
                                   ELSE q.pc = r.ret
                         ELSE q.pc \notin HandlerPcs /\ dom'[r.el].value = dom[r.el].value)
           /\ (r.pc = "msNestedWait" /\ q.pc # "msNestedWait")
                => (/\ r.itemType = "2"
                    /\ IF q.pc = "msNestedAI"
                         THEN /\ q.reqs = 2
                              /\ q.opts = OptionIds(r.el, 2)
                              /\ last' = NoEvent
                         ELSE q.pc \notin HandlerPcs /\ last'.clicked = << >>)
           /\ (r.pc = "msNestedAI" /\ q.pc # "msNestedAI")
                => (/\ r.reqs = 2
                    /\ q.pc \notin HandlerPcs
                    /\ last'.clicked # << >>
                         => (/\ Len(last'.clicked) = 1
                             /\ last'.clicked[1] \in SeqToSet(OptionIds(r.el, 2))
                             /\ q.pc = r.ret))]_vars

\* a nested list has been filled: the option of the sub-list was clicked
\* after the second request
C29_Witness ==
  /\ last.kind = "multiSelect"
  /\ last.opts = OptionIds(last.el, 2)
  /\ last.clicked # << >>
  /\ dom[last.el].value = last.clicked[1]
  /\ FirstItemType(last.el) = "2"

\* a single-level list has been filled with one request and one click
C29_WitnessPlain ==
  /\ last.kind = "multiSelect"
  /\ last.opts = OptionIds(last.el, 1)
  /\ last.clicked # << >>
  /\ dom[last.el].value = last.clicked[1]
  /\ inv[last.inv].pc = "labels"

====
